---- MODULE Spec2Model ----
(***************************************************************************)
(* Key placement layer of app-layer-db-sharding (src/shard_manager.py):    *)
(* the modulo router ShardManager and the consistent-hash ring             *)
(* ConsistentHashShardManager.                                             *)
(*                                                                         *)
(* The bit mixing of the hash primitive (mmh3, or the interpreter's hash   *)
(* in the fallback path) is outside the repository.  It is modelled as an  *)
(* arbitrary deterministic function: hashTable holds the value the         *)
(* primitive gives for each (variant, seed, bytes) the constructed manager *)
(* can hash; it is drawn, any function into HashValues, when the manager   *)
(* is constructed and never changes.  Strings are sequences of code        *)
(* points, bytes are sequences of 0..255.  An operation's outcome is       *)
(* Ok(value) or Raise(exception name).                                     *)
(***************************************************************************)
EXTENDS Integers, Sequences, FiniteSets

VARIABLES mgr, hashTable, last

vars == <<mgr, hashTable, last>>

(* ------------------------------ bounds --------------------------------- *)

MaxShards == 3
MaxVirtualNodes == 2
MaxRingEntries == 4
MaxHash == 3
MaxKeys == 2

HashValues == 0..MaxHash
ShardCounts == (0 - 1)..MaxShards
VirtualNodeCounts == (0 - 1)..MaxVirtualNodes
OldShardCounts == 1..MaxShards
HashSeeds == {0, 42}
\* create_consistent_shard_manager's default seed
RingSeeds == {42}
AlgorithmTags == {"murmur3_32", "murmur3_128", "md5"}

(* ------------------------------- keys ---------------------------------- *)

IntKey(n) == [type |-> "int", value |-> n]
StrKey(s) == [type |-> "str", value |-> s]
BytesKey(b) == [type |-> "bytes", value |-> b]

(* ------------------------------ results -------------------------------- *)

Ok(v) == [exc |-> "none", value |-> v]
Raise(e) == [exc |-> e, value |-> 0]

\* Python's a % b for b # 0: the result has the sign of b.
PyMod(a, b) == IF b > 0 THEN a % b ELSE 0 - ((0 - a) % (0 - b))

(* ------------------------------ encoding ------------------------------- *)

\* 12, "12", "\u00e9\u20ac\U0001f600" (code points of two, three and four
\* bytes), the bytes of its encoding, and "\ud800", a str holding a lone
\* surrogate, which has no UTF-8 encoding.
Keys ==
    {IntKey(12), StrKey(<<49, 50>>), StrKey(<<233, 8364, 128512>>),
     BytesKey(<<195, 169, 226, 130, 172, 240, 159, 152, 128>>), StrKey(<<55296>>)}

RECURSIVE Digits(_)
Digits(n) == IF n < 10 THEN <<48 + n>> ELSE Digits(n \div 10) \o <<48 + (n % 10)>>

\* A mutant of str: the digits least significant first.
RECURSIVE DigitsReversed(_)
DigitsReversed(n) ==
    IF n < 10 THEN <<48 + n>> ELSE <<48 + (n % 10)>> \o DigitsReversed(n \div 10)

str_digits_reversed(n) == IF n < 0 THEN <<45>> \o DigitsReversed(0 - n) ELSE DigitsReversed(n)

\* Python's str(int): the decimal digits, "-" first for a negative number.
str(n) == IF n < 0 THEN <<45>> \o Digits(0 - n) ELSE Digits(n)

\* One code point as UTF-8: one to four bytes, and UnicodeEncodeError for a
\* surrogate (U+D800..U+DFFF).
Utf8Char(c) ==
    IF c < 128 THEN Ok(<<c>>)
    ELSE IF c < 2048 THEN Ok(<<192 + (c \div 64), 128 + (c % 64)>>)
    ELSE IF c >= 55296 /\ c <= 57343 THEN Raise("UnicodeEncodeError")
    ELSE IF c < 65536
    THEN Ok(<<224 + (c \div 4096), 128 + ((c \div 64) % 64), 128 + (c % 64)>>)
    ELSE Ok(<<240 + (c \div 262144), 128 + ((c \div 4096) % 64),
              128 + ((c \div 64) % 64), 128 + (c % 64)>>)

\* s.encode('utf-8')
RECURSIVE encode(_)
encode(s) ==
    IF s = <<>> THEN Ok(<<>>)
    ELSE LET first == Utf8Char(Head(s))
             rest == encode(Tail(s))
         IN  IF first.exc # "none" THEN first
             ELSE IF rest.exc # "none" THEN rest
             ELSE Ok(first.value \o rest.value)

\* The bytes the hash primitive reads from a str or bytes key.
KeyBytes(key) == IF key.type = "str" THEN encode(key.value) ELSE Ok(key.value)

(* --------------------------- hash functions ---------------------------- *)

\* An int key is neither a str nor bytes-like: the primitive raises. So
\* does the encoding of a str that has none.
murmur3_32(key, seed, table) ==
    IF key.type = "int" THEN Raise("TypeError")
    ELSE LET bytes == KeyBytes(key)
         IN  IF bytes.exc # "none" THEN bytes
             ELSE Ok(table[<<"murmur3_32", seed, bytes.value>>])

murmur3_128(key, seed, table) ==
    IF key.type = "int" THEN Raise("TypeError")
    ELSE LET bytes == KeyBytes(key)
         IN  IF bytes.exc # "none" THEN bytes
             ELSE Ok(table[<<"murmur3_128", seed, bytes.value>>])

\* A mutant of _get_hash_function: an unknown tag falls back to murmur3_32.
_get_hash_function_with_default(algorithm) ==
    IF algorithm = "murmur3_128" THEN "murmur3_128" ELSE "murmur3_32"

_get_hash_function(algorithm) ==
    IF algorithm = "murmur3_32" THEN "murmur3_32"
    ELSE IF algorithm = "murmur3_128" THEN "murmur3_128"
    ELSE "ValueError"

\* self._hash_func(key, seed)
_hash_func(self, key, table) ==
    IF self.hash_func = "murmur3_32"
    THEN murmur3_32(key, self.config.hash_seed, table)
    ELSE murmur3_128(key, self.config.hash_seed, table)

(* ---------------------------- ShardManager ----------------------------- *)

ShardConfig(total_shards, hash_seed, algorithm) ==
    [total_shards |-> total_shards, hash_seed |-> hash_seed, algorithm |-> algorithm]

\* A mutant of ShardManager.get_shard_id: the modulus is one too large.
get_shard_id_modulus_off_by_one(self, key, table) ==
    LET k == IF key.type = "int" THEN StrKey(str(key.value)) ELSE key
        h == _hash_func(self, k, table)
    IN  IF h.exc # "none" THEN h
        ELSE IF self.config.total_shards + 1 = 0 THEN Raise("ZeroDivisionError")
        ELSE Ok(PyMod(h.value, self.config.total_shards + 1))

ShardManager_get_shard_id(self, key, table) ==
    LET k == IF key.type = "int" THEN StrKey(str(key.value)) ELSE key
        h == _hash_func(self, k, table)
    IN  IF h.exc # "none" THEN h
        ELSE IF self.config.total_shards = 0 THEN Raise("ZeroDivisionError")
        ELSE Ok(PyMod(h.value, self.config.total_shards))

(* ---------------------- ConsistentHashShardManager --------------------- *)

\* f"shard_{shard_id}_vnode_{vnode}"
vnode_key(shard_id, vnode) ==
    StrKey(<<115, 104, 97, 114, 100, 95>> \o str(shard_id)
           \o <<95, 118, 110, 111, 100, 101, 95>> \o str(vnode))

\* range(n)
range(n) == 0..(n - 1)

\* The appends of the two nested loops, in order: entry number i (from 0) is
\* that of shard i div virtual_nodes, vnode i mod virtual_nodes.
RingAppends(self, virtual_nodes, table) ==
    IF self.config.total_shards <= 0 \/ virtual_nodes <= 0 THEN <<>>
    ELSE [i \in 1..(self.config.total_shards * virtual_nodes) |->
            LET shard_id == (i - 1) \div virtual_nodes
                vnode == (i - 1) % virtual_nodes
            IN  <<_hash_func(self, vnode_key(shard_id, vnode), table).value, shard_id>>]

\* A mutant of the sort: e goes before the entries of equal hash, so equal
\* hashes end in reverse order of insertion.
RECURSIVE InsertBeforeEqual(_, _)
InsertBeforeEqual(sorted, e) ==
    IF sorted = <<>> THEN <<e>>
    ELSE IF Head(sorted)[1] < e[1] THEN <<Head(sorted)>> \o InsertBeforeEqual(Tail(sorted), e)
    ELSE <<e>> \o sorted

\* list.sort(key=lambda x: x[0]) is stable: e goes after every entry whose
\* hash is not larger.
RECURSIVE InsertStable(_, _)
InsertStable(sorted, e) ==
    IF sorted = <<>> THEN <<e>>
    ELSE IF Head(sorted)[1] <= e[1] THEN <<Head(sorted)>> \o InsertStable(Tail(sorted), e)
    ELSE <<e>> \o sorted

RECURSIVE sort(_)
sort(ring) ==
    IF ring = <<>> THEN <<>>
    ELSE InsertStable(sort(SubSeq(ring, 1, Len(ring) - 1)), ring[Len(ring)])

\* A mutant of _build_hash_ring: the sort is missing.
_build_hash_ring_unsorted(self, virtual_nodes, table) == RingAppends(self, virtual_nodes, table)

_build_hash_ring(self, virtual_nodes, table) == sort(RingAppends(self, virtual_nodes, table))

\* A mutant of the scan: past the end it returns the last entry's shard.
RECURSIVE ScanRing_wrap_to_last(_, _, _)
ScanRing_wrap_to_last(ring, i, hash_value) ==
    IF i > Len(ring)
    THEN IF ring = <<>> THEN Raise("IndexError") ELSE Ok(ring[Len(ring)][2])
    ELSE IF ring[i][1] >= hash_value THEN Ok(ring[i][2])
    ELSE ScanRing_wrap_to_last(ring, i + 1, hash_value)

\* for ring_hash, shard_id in self._ring: if ring_hash >= hash_value: return
\* shard_id; after the loop, self._ring[0][1].
RECURSIVE ScanRing(_, _, _)
ScanRing(ring, i, hash_value) ==
    IF i > Len(ring)
    THEN IF ring = <<>> THEN Raise("IndexError") ELSE Ok(ring[1][2])
    ELSE IF ring[i][1] >= hash_value THEN Ok(ring[i][2])
    ELSE ScanRing(ring, i + 1, hash_value)

\* A mutant of ConsistentHashShardManager.get_shard_id: the override is
\* missing and the ring routes by modulo like its base class.
get_shard_id_not_overridden(self, key, table) == ShardManager_get_shard_id(self, key, table)

ConsistentHashShardManager_get_shard_id(self, key, table) ==
    LET k == IF key.type = "int" THEN StrKey(str(key.value)) ELSE key
        h == _hash_func(self, k, table)
    IN  IF h.exc # "none" THEN h ELSE ScanRing(self.ring, 1, h.value)

\* self.get_shard_id: the subclass overrides it.
get_shard_id(self, key, table) ==
    IF self.kind = "ConsistentHashShardManager"
    THEN ConsistentHashShardManager_get_shard_id(self, key, table)
    ELSE ShardManager_get_shard_id(self, key, table)

(* ------------------- distribution and migration ------------------------ *)

\* A mutant of the tally: the count is set to 1 instead of incremented.
Increment_overwrites(distribution, shard_id) ==
    [s \in DOMAIN distribution \cup {shard_id} |-> IF s = shard_id THEN 1 ELSE distribution[s]]

\* distribution[shard_id] = distribution.get(shard_id, 0) + 1
Increment(distribution, shard_id) ==
    IF shard_id \in DOMAIN distribution
    THEN [distribution EXCEPT ![shard_id] = @ + 1]
    ELSE [s \in DOMAIN distribution \cup {shard_id} |->
            IF s = shard_id THEN 1 ELSE distribution[s]]

RECURSIVE TallyFrom(_, _, _, _, _)
TallyFrom(self, keys, i, distribution, table) ==
    IF i > Len(keys) THEN Ok(distribution)
    ELSE LET r == get_shard_id(self, keys[i], table)
         IN  IF r.exc # "none" THEN r
             ELSE TallyFrom(self, keys, i + 1, Increment(distribution, r.value), table)

get_shard_key_distribution(self, keys, table) ==
    TallyFrom(self, keys, 1, [s \in {} |-> 0], table)

\* The old shard hashes the key as given; the new one goes through
\* get_shard_id.
migrate_key(self, key, old_total_shards, table) ==
    LET h == _hash_func(self, key, table)
    IN  IF h.exc # "none" THEN h
        ELSE IF old_total_shards = 0 THEN Raise("ZeroDivisionError")
        ELSE LET old_shard_id == PyMod(h.value, old_total_shards)
                 new == get_shard_id(self, key, table)
             IN  IF new.exc # "none" THEN new
                 ELSE Ok(<<old_shard_id, new.value, old_shard_id # new.value>>)

(* --------------------------- the hash table ---------------------------- *)

\* The bytes of key once get_shard_id has canonicalised it.
CanonicalKeyBytes(key) == KeyBytes(IF key.type = "int" THEN StrKey(str(key.value)) ELSE key)

\* What self._hash_func reads for key.
HashInput(self, key) == <<self.hash_func, self.config.hash_seed, CanonicalKeyBytes(key).value>>

\* Every input the manager self can hash: its virtual-node identifiers (none
\* for the modulo router, whose virtual_nodes is 0) and the callers' keys
\* that have bytes.
HashInputs(self, virtual_nodes) ==
    {HashInput(self, vnode_key(s, v)) :
        s \in range(self.config.total_shards), v \in range(virtual_nodes)}
    \cup UNION {IF CanonicalKeyBytes(k).exc = "none" THEN {HashInput(self, k)} ELSE {} :
                    k \in Keys}

\* The hash primitive is any function of its input.
HashTables(self, virtual_nodes) == [HashInputs(self, virtual_nodes) -> HashValues]

(* ------------------------------ actions -------------------------------- *)

NoCall == [op |-> "none", keys |-> <<>>, old_total_shards |-> 0, result |-> Ok(0)]

NoManager ==
    [kind |-> "none", config |-> ShardConfig(0, 0, ""), hash_func |-> "",
     virtual_nodes |-> 0, ring |-> <<>>]

Init ==
    /\ mgr = NoManager
    /\ hashTable = <<>>
    /\ last = NoCall

\* ShardManager(config)
NewShardManager(config) ==
    /\ mgr.kind = "none"
    /\ LET f == _get_hash_function(config.algorithm)
           self == [kind |-> "ShardManager", config |-> config, hash_func |-> f,
                    virtual_nodes |-> 0, ring |-> <<>>]
       IN  IF f = "ValueError"
           THEN /\ mgr' = [self EXCEPT !.kind = "ValueError"]
                /\ UNCHANGED hashTable
           ELSE /\ mgr' = self
                /\ hashTable' \in HashTables(self, 0)
    /\ UNCHANGED last

\* ConsistentHashShardManager(config, virtual_nodes)
NewConsistentHashShardManager(config, virtual_nodes) ==
    /\ mgr.kind = "none"
    /\ LET f == _get_hash_function(config.algorithm)
           self == [kind |-> "ConsistentHashShardManager", config |-> config,
                    hash_func |-> f, virtual_nodes |-> virtual_nodes, ring |-> <<>>]
       IN  IF f = "ValueError"
           THEN /\ mgr' = [self EXCEPT !.kind = "ValueError", !.virtual_nodes = 0]
                /\ UNCHANGED hashTable
           ELSE \E table \in HashTables(self, virtual_nodes) :
                    /\ hashTable' = table
                    /\ mgr' = [self EXCEPT !.ring = _build_hash_ring(self, virtual_nodes, table)]
    /\ UNCHANGED last

Constructed == mgr.kind \in {"ShardManager", "ConsistentHashShardManager"}

\* mgr.get_shard_id(key)
Route(key) ==
    /\ Constructed
    /\ last.op = "none"
    /\ last' = [op |-> "get_shard_id", keys |-> <<key>>, old_total_shards |-> 0,
                result |-> get_shard_id(mgr, key, hashTable)]
    /\ UNCHANGED <<mgr, hashTable>>

\* mgr.get_shard_key_distribution(keys)
Distribution(keys) ==
    /\ Constructed
    /\ last.op = "none"
    /\ last' = [op |-> "get_shard_key_distribution", keys |-> keys,
                old_total_shards |-> 0,
                result |-> get_shard_key_distribution(mgr, keys, hashTable)]
    /\ UNCHANGED <<mgr, hashTable>>

\* mgr.migrate_key(key, old_total_shards)
Migrate(key, old_total_shards) ==
    /\ Constructed
    /\ last.op = "none"
    /\ last' = [op |-> "migrate_key", keys |-> <<key>>,
                old_total_shards |-> old_total_shards,
                result |-> migrate_key(mgr, key, old_total_shards, hashTable)]
    /\ UNCHANGED <<mgr, hashTable>>

\* The caller has used the result (or caught the exception) and goes on.
Return ==
    /\ last.op # "none"
    /\ last' = NoCall
    /\ UNCHANGED <<mgr, hashTable>>

Configs == {ShardConfig(n, s, a) : n \in ShardCounts, s \in HashSeeds, a \in AlgorithmTags}

RingArguments ==
    {args \in Configs \X VirtualNodeCounts :
        /\ args[1].hash_seed \in RingSeeds
        /\ args[1].total_shards * args[2] <= MaxRingEntries}

KeyBatches == UNION {[1..n -> Keys] : n \in 0..MaxKeys}

Next ==
    \/ \E config \in Configs : NewShardManager(config)
    \/ \E args \in RingArguments : NewConsistentHashShardManager(args[1], args[2])
    \/ \E key \in Keys : Route(key)
    \/ \E keys \in KeyBatches : Distribution(keys)
    \/ \E key \in Keys, old_total_shards \in OldShardCounts : Migrate(key, old_total_shards)
    \/ Return

Spec == Init /\ [][Next]_vars

(* ------------------------- reading the state --------------------------- *)

ValidTags == {"murmur3_32", "murmur3_128"}

IsRouter == mgr.kind = "ShardManager"
IsRing == mgr.kind = "ConsistentHashShardManager"

\* The configuration the data model calls valid.
ValidConfiguration ==
    /\ mgr.config.total_shards >= 1
    /\ IsRing => mgr.virtual_nodes >= 1

Called(op) == last.op = op

\* The str key of Keys that is not Unicode text: it holds a surrogate.
LoneSurrogate == StrKey(<<55296>>)

\* A key the hash contract covers: an int, bytes, or a str with a UTF-8
\* encoding.
HasBytes(key) == key # LoneSurrogate

\* The canonical bytes of each such key of Keys, written out.
CanonicalBytes(key) ==
    IF key = IntKey(12) \/ key = StrKey(<<49, 50>>) THEN <<49, 50>>
    ELSE <<195, 169, 226, 130, 172, 240, 159, 152, 128>>

\* hash(canonical(key), hash_seed) under the configured algorithm.
HashOfKey(key) == hashTable[<<mgr.config.algorithm, mgr.config.hash_seed, CanonicalBytes(key)>>]

\* hash("shard_<s>_vnode_<v>", hash_seed), for one-digit s and v.
HashOfVnode(s, v) ==
    hashTable[<<mgr.config.algorithm, mgr.config.hash_seed,
                <<115, 104, 97, 114, 100, 95, 48 + s, 95, 118, 110, 111, 100, 101, 95, 48 + v>>>>]

Shards == 0..(mgr.config.total_shards - 1)
Vnodes == 0..(mgr.virtual_nodes - 1)

(* ------------------------------- claims -------------------------------- *)

\* C1: on a modulo router built with total_shards >= 1, get_shard_id(k)
\* returns hash(canonical(k), hash_seed) mod total_shards, an integer of
\* 0..total_shards-1, for an int key, a bytes key and a str key with a UTF-8
\* encoding.
C1_ModuloCorrectness ==
    (Called("get_shard_id") /\ IsRouter /\ mgr.config.total_shards >= 1
        /\ HasBytes(last.keys[1])) =>
        /\ last.result.exc = "none"
        /\ last.result.value = HashOfKey(last.keys[1]) % mgr.config.total_shards
        /\ last.result.value \in Shards

C1_Witness ==
    /\ Called("get_shard_id") /\ IsRouter
    /\ mgr.config.total_shards = 3
    /\ last.keys[1].type = "bytes"
    /\ HashOfKey(last.keys[1]) = 3
    /\ last.result = Ok(0)

\* h is past the end of the ring.
ExceedsRing(h) == \A i \in DOMAIN mgr.ring : mgr.ring[i][1] < h

\* C2: on a ring of a valid configuration get_shard_id returns a shard id
\* of 0..total_shards-1 for every key that has a hash (an int, bytes, or a
\* str with a UTF-8 encoding), and when the key's hash exceeds the hash of
\* every ring entry it returns the shard of the first entry, whose hash is
\* the smallest.
C2_RingTotality ==
    (Called("get_shard_id") /\ IsRing /\ ValidConfiguration /\ HasBytes(last.keys[1])) =>
        /\ last.result.exc = "none"
        /\ last.result.value \in Shards
        /\ ExceedsRing(HashOfKey(last.keys[1])) =>
              /\ last.result.value = mgr.ring[1][2]
              /\ \A i \in DOMAIN mgr.ring : mgr.ring[1][1] <= mgr.ring[i][1]

C2_Witness ==
    /\ Called("get_shard_id") /\ IsRing /\ ValidConfiguration /\ HasBytes(last.keys[1])
    /\ ExceedsRing(HashOfKey(last.keys[1]))
    /\ mgr.ring[1][2] # mgr.ring[Len(mgr.ring)][2]
    /\ last.result = Ok(mgr.ring[1][2])

\* C3: a router with total_shards < 1 and a ring with virtual_nodes < 1 or
\* total_shards = 0 are never constructed (the constructor raises), so no
\* get_shard_id call on a constructed manager raises for a key that has a
\* hash.
C3_InvalidConfigurationRejected ==
    /\ (IsRouter \/ IsRing) => ValidConfiguration
    /\ (Called("get_shard_id") /\ HasBytes(last.keys[1])) => last.result.exc = "none"

\* C4: with an algorithm tag other than murmur3_32 and murmur3_128 the
\* constructor raises and no key is ever hashed or routed; with one of the
\* two tags the manager holds the hash function of that tag.
C4_UnsupportedAlgorithm ==
    /\ mgr.kind = "ValueError" =>
          /\ mgr.config.algorithm \notin ValidTags
          /\ hashTable = <<>>
          /\ last = NoCall
    /\ (IsRouter \/ IsRing) =>
          /\ mgr.config.algorithm \in ValidTags
          /\ mgr.hash_func = mgr.config.algorithm
    /\ ~Called("none") => (IsRouter \/ IsRing)

C4_Witness ==
    /\ mgr.kind = "ValueError"
    /\ mgr.config.algorithm = "md5"
    /\ mgr.config.total_shards = 3

\* The decimal string of each integer of Keys, written out.
DecimalString(n) == IF n = 12 THEN <<49, 50>> ELSE <<>>

\* C5: get_shard_id of an integer equals get_shard_id of its decimal
\* string, on the modulo router and on the ring.
C5_IntegerCanonicalization ==
    (Called("get_shard_id") /\ last.keys[1].type = "int") =>
        last.result = get_shard_id(mgr, StrKey(DecimalString(last.keys[1].value)), hashTable)

C5_Witness ==
    /\ Called("get_shard_id") /\ IsRing
    /\ last.keys[1] = IntKey(12)
    /\ mgr.config.total_shards = 3
    /\ last.result = Ok(2)
    /\ get_shard_id(mgr, StrKey(<<49, 50>>), hashTable) = Ok(2)
    /\ get_shard_id(mgr, StrKey(<<233, 8364, 128512>>), hashTable) = Ok(0)

\* C6: on a modulo router of a valid configuration, for a key that
\* get_shard_id accepts (an int, bytes, or a str with a UTF-8 encoding) and
\* old_total_shards >= 1, migrate_key returns (old, new, needs_migration)
\* with old = hash(canonical(key), seed) mod old_total_shards, new =
\* get_shard_id(key) and needs_migration true exactly when they differ.
C6_MigrationImpact ==
    (Called("migrate_key") /\ IsRouter /\ ValidConfiguration /\ last.old_total_shards >= 1
        /\ HasBytes(last.keys[1])) =>
        /\ last.result.exc = "none"
        /\ LET old == HashOfKey(last.keys[1]) % last.old_total_shards
               new == HashOfKey(last.keys[1]) % mgr.config.total_shards
           IN  last.result.value = <<old, new, old # new>>

\* The same for str and bytes keys only.
MigrationImpactOfStrAndBytes ==
    (Called("migrate_key") /\ last.keys[1].type = "int") \/ C6_MigrationImpact

\* A str that has no UTF-8 encoding is refused by every operation that
\* reaches it (a batch may fail on an earlier key): the encoder's
\* UnicodeEncodeError goes to the caller.
UnencodableKeyRaises ==
    /\ (~Called("none") /\ \E i \in DOMAIN last.keys : ~HasBytes(last.keys[i])) =>
          last.result.exc # "none"
    /\ (~Called("none") /\ Len(last.keys) >= 1 /\ ~HasBytes(last.keys[1])) =>
          last.result = Raise("UnicodeEncodeError")

\* Where the manager routes key.
RouteOf(key) == get_shard_id(mgr, key, hashTable).value

PositionsOn(keys, shard_id) == {i \in DOMAIN keys : RouteOf(keys[i]) = shard_id}

RECURSIVE SumOver(_, _)
SumOver(f, ids) ==
    IF ids = {} THEN 0
    ELSE LET s == CHOOSE x \in ids : TRUE IN f[s] + SumOver(f, ids \ {s})

Reorderings(n) == {p \in [1..n -> 1..n] : \A i, j \in 1..n : p[i] = p[j] => i = j}

\* C7: on a manager of a valid configuration get_shard_key_distribution,
\* given keys that all have a hash, maps each shard id to the number of
\* positions of keys whose key routes to it (and maps no other id): the
\* counts add up to len(keys), every mapped id is in 0..total_shards-1, and
\* every permutation of keys gives the same mapping.
C7_Distribution ==
    (Called("get_shard_key_distribution") /\ ValidConfiguration
        /\ \A i \in DOMAIN last.keys : HasBytes(last.keys[i])) =>
        /\ last.result.exc = "none"
        /\ LET d == last.result.value
               keys == last.keys
           IN  /\ DOMAIN d = {RouteOf(keys[i]) : i \in DOMAIN keys}
               /\ DOMAIN d \subseteq Shards
               /\ \A s \in DOMAIN d : d[s] = Cardinality(PositionsOn(keys, s))
               /\ SumOver(d, DOMAIN d) = Len(keys)
               /\ \A p \in Reorderings(Len(keys)) :
                     get_shard_key_distribution(mgr, [i \in DOMAIN keys |-> keys[p[i]]], hashTable)
                        = last.result

C7_Witness ==
    /\ Called("get_shard_key_distribution") /\ IsRouter
    /\ mgr.config.total_shards = 3
    /\ Len(last.keys) = 2
    /\ last.keys[1].type = "int" /\ last.keys[2].type = "str"
    /\ last.result.exc = "none"
    /\ DOMAIN last.result.value = {2}
    /\ last.result.value[2] = 2

\* The ring holds the entries of the build, sorted.
RingWellFormed ==
    (IsRing /\ mgr.config.total_shards >= 0 /\ mgr.virtual_nodes >= 0) =>
        /\ Len(mgr.ring) = mgr.config.total_shards * mgr.virtual_nodes
        /\ \A i \in DOMAIN mgr.ring : mgr.ring[i][2] \in Shards /\ mgr.ring[i][1] \in HashValues
        /\ \A s \in Shards, x \in HashValues :
              Cardinality({i \in DOMAIN mgr.ring : mgr.ring[i] = <<x, s>>})
                 = Cardinality({v \in Vnodes : HashOfVnode(s, v) = x})
        /\ \A i, j \in DOMAIN mgr.ring : i < j => mgr.ring[i][1] <= mgr.ring[j][1]

\* A step from a constructed manager leaves it as it is.
RingImmutable == (IsRing \/ IsRouter) => (mgr' = mgr /\ hashTable' = hashTable)

\* C8: the ring of a constructed ConsistentHashShardManager (of
\* non-negative total_shards and virtual_nodes) has total_shards x
\* virtual_nodes entries, for each shard s and hash value x as many entries
\* (x, s) as s has virtual nodes v with hash("shard_<s>_vnode_<v>", seed) =
\* x, in ascending order of hash value; and no call of get_shard_id,
\* get_shard_key_distribution or migrate_key changes the manager (its
\* config, virtual_nodes and ring).
C8_RingInvariant == [](RingWellFormed) /\ [][RingImmutable]_vars

C8_Witness ==
    /\ IsRing /\ Len(mgr.ring) = 4
    /\ mgr.virtual_nodes = 2
    /\ HashOfVnode(0, 0) = 3 /\ HashOfVnode(0, 1) = 1
    /\ HashOfVnode(1, 0) = 2 /\ HashOfVnode(1, 1) = 0
    /\ mgr.ring = <<<<0, 1>>, <<1, 0>>, <<2, 1>>, <<3, 0>>>>
    /\ Called("migrate_key")

\* The virtual nodes (shard, vnode) at or after h, and those of them with
\* the smallest hash.
VnodesFrom(h) == {sv \in Shards \X Vnodes : HashOfVnode(sv[1], sv[2]) >= h}

Successors(h) ==
    {sv \in VnodesFrom(h) :
        \A other \in VnodesFrom(h) : HashOfVnode(sv[1], sv[2]) <= HashOfVnode(other[1], other[2])}

\* C9: on a ring of a valid configuration, for a key whose hash h does not
\* exceed the largest ring hash, get_shard_id returns the shard of the
\* virtual node with the smallest hash >= h, and among the virtual nodes
\* sharing that hash the one appended first: lowest shard id (then lowest
\* vnode index, which names the same shard).
C9_SuccessorLookup ==
    (Called("get_shard_id") /\ IsRing /\ ValidConfiguration /\ HasBytes(last.keys[1])) =>
        LET h == HashOfKey(last.keys[1])
        IN  VnodesFrom(h) # {} =>
              /\ last.result.exc = "none"
              /\ \E sv \in Successors(h) :
                    /\ last.result.value = sv[1]
                    /\ \A other \in Successors(h) : sv[1] <= other[1]

C9_Witness ==
    /\ Called("get_shard_id") /\ IsRing /\ ValidConfiguration /\ HasBytes(last.keys[1])
    /\ LET h == HashOfKey(last.keys[1])
       IN  /\ \A sv \in VnodesFrom(h) : HashOfVnode(sv[1], sv[2]) > h
           /\ \E a, b \in Successors(h) : a[1] = 1 /\ b[1] = 2
           /\ \A sv \in Successors(h) : sv[1] >= 1
           /\ \E sv \in Shards \X Vnodes : HashOfVnode(sv[1], sv[2]) < h
           /\ last.result = Ok(1)

\* The manager the constructor builds from the same algorithm, seed and
\* virtual_nodes with one shard fewer.
SmallerRing ==
    LET self == [mgr EXCEPT !.config.total_shards = @ - 1]
    IN  [self EXCEPT !.ring = _build_hash_ring(self, self.virtual_nodes, hashTable)]

\* C10: a key (one that has a hash) routed on a ring of N+1 >= 2 shards
\* goes where the ring built with the same algorithm, seed and virtual_nodes
\* for N shards sends it, or to the added shard N; ties between virtual
\* nodes and the wraparound included.
C10_MonotoneGrowth ==
    (Called("get_shard_id") /\ IsRing /\ mgr.config.total_shards >= 2 /\ mgr.virtual_nodes >= 1
        /\ HasBytes(last.keys[1])) =>
        LET before == get_shard_id(SmallerRing, last.keys[1], hashTable)
        IN  /\ before.exc = "none"
            /\ last.result.exc = "none"
            /\ \/ last.result.value = before.value
               \/ last.result.value = mgr.config.total_shards - 1

C10_Witness ==
    /\ Called("get_shard_id") /\ IsRing /\ HasBytes(last.keys[1])
    /\ mgr.config.total_shards = 3 /\ mgr.virtual_nodes = 1
    /\ HashOfKey(last.keys[1]) = 3
    /\ ExceedsRing(3)
    /\ HashOfVnode(1, 0) = HashOfVnode(2, 0)
    /\ HashOfVnode(1, 0) < HashOfVnode(0, 0)
    /\ last.result = Ok(1)
    /\ get_shard_id(SmallerRing, last.keys[1], hashTable) = Ok(1)

====
